---- MODULE Spec2Model ----
(***************************************************************************)
(* Model of run-mythril.py: the batch driver that loads each contract's    *)
(* compiled artifact, runs the `myth` analyzer on its bytecode, classifies *)
(* the captured text and writes a summary table and a report file.         *)
(*                                                                         *)
(* Python strings are TLA+ strings; `x in s` is Contains(x, s).  A value   *)
(* that is either None or a str is a record [isNone, text].  A JSON value  *)
(* read from an artifact is a record [t, s] with t its JSON type.          *)
(***************************************************************************)
EXTENDS Integers, Sequences, FiniteSets, TLC

\* ---------------------------------------------------------------- bounds
\* How many texts of TextPool the analyzer may print.
MaxTexts == 6

\* ------------------------------------------------------------- constants
CONTRACTS == <<"MOEToken", "DepositContract", "VestingWalletFactory", "StageBasedVestingWallet">>

ContractNames == {CONTRACTS[k] : k \in 1..Len(CONTRACTS)}

\* The marker main() writes for a falsy result (the literal of line 150).
FAILED_MARKER == "analysis failed or incomplete\n"

\* ------------------------------------------------------- Python values
None == [isNone |-> TRUE, text |-> ""]
Str(s) == [isNone |-> FALSE, text |-> s]

\* bool(result) for a value that is None or a str.
Truthy(r) == ~r.isNone /\ r.text # ""

\* `sub in s` on str.
Contains(sub, s) ==
    \E k \in 1..(Len(s) - Len(sub) + 1) : SubSeq(s, k, k + Len(sub) - 1) = sub

\* JSON values an artifact field can hold.
JStr(s) == [t |-> "str", s |-> s]
JNull == [t |-> "null", s |-> ""]
JNum == [t |-> "num", s |-> "5"]
Absent == [t |-> "absent", s |-> ""]

\* bool(v) for a JSON value: '' and None are falsy, 5 is truthy.
JTruthy(v) == IF v.t = "str" THEN v.s # "" ELSE v.t = "num"

\* dict.get(key, ''): the field, or '' when the key is missing.
Get(field) == IF field.t = "absent" THEN JStr("") ELSE field

\* ------------------------------------------------------------ inputs
BytecodeFields == {Absent, JStr(""), JStr("0x"), JStr("0x6080"), JNull, JNum}
DeployedFields == {Absent, JStr(""), JStr("0x"), JStr("0x6001"), JNull, JNum}

\* What json.load can return: a JSON object with the two fields, or a JSON
\* value that is not an object (a list, a number, ...).
Artifacts ==
    [kind : {"object"}, bytecode : BytecodeFields, deployedBytecode : DeployedFields]
    \cup {[kind |-> "list", bytecode |-> Absent, deployedBytecode |-> Absent]}

\* No artifact loaded yet; the path does not exist; the file cannot be read
\* or is not JSON.
NoArtifact == [kind |-> "none", bytecode |-> Absent, deployedBytecode |-> Absent]
MissingArtifact == [kind |-> "missing", bytecode |-> Absent, deployedBytecode |-> Absent]
UnreadableArtifact == [kind |-> "unreadable", bytecode |-> Absent, deployedBytecode |-> Absent]

TextPool == << "", "No issues found with SWC", "Timeout", "SWC-101", "No issues found",
               "error", "Issue", "No issues", "Traceback" >>

AnalyzerTexts == {TextPool[k] : k \in 1..(IF MaxTexts < Len(TextPool) THEN MaxTexts ELSE Len(TextPool))}

ReturnCodes == {0, 1}

\* ------------------------------------------------------------- outcomes
FailureOutcomes == {"NotFound", "ReadError", "EmptyBytecode", "ToolMissing", "RuntimeError"}
Outcomes == FailureOutcomes \cup {"IssuesFound", "Clean", "Timeout", "NeedsReview"}

VARIABLES
    pc,                 \* position of main() / analyze_contract()
    i,                  \* index in CONTRACTS of main's loop
    results,            \* the dict of main(), in insertion order
    outcome,            \* per contract, the message analyze_contract printed
    artifact,           \* local: what the artifact file was found to hold
    bytecode,           \* local
    deployed_bytecode,  \* local
    payload,            \* local: the argument after --bin-runtime
    output,             \* local: result.stdout + result.stderr
    returncode,         \* local: result.returncode
    raised,             \* local: the exception raised inside the try block
    ret,                \* value analyze_contract is about to return
    scratch,            \* per contract, whether /tmp/<name>_bytecode.bin exists
    created,            \* per contract, how often the scratch file was opened for writing
    proc,               \* whether the analyzer subprocess is running
    spawns,             \* per contract, how often the analyzer was spawned
    status,             \* the summary table printed by main()
    report,             \* sections of mythril-analysis-results.txt
    reportWrites        \* how often the report file was written

vars == <<pc, i, results, outcome, artifact, bytecode, deployed_bytecode, payload,
          output, returncode, raised, ret, scratch, created, proc, spawns, status,
          report, reportWrites>>

locals == <<artifact, bytecode, deployed_bytecode, payload, output, returncode, raised>>
files == <<scratch, created>>
summary == <<status, report, reportWrites>>

\* The contract analyze_contract is running for.
contract_name == CONTRACTS[i]

Init ==
    /\ pc = "loop"
    /\ i = 1
    /\ results = << >>
    /\ outcome = [c \in ContractNames |-> "NotRun"]
    /\ artifact = NoArtifact
    /\ bytecode = Absent
    /\ deployed_bytecode = Absent
    /\ payload = Absent
    /\ output = ""
    /\ returncode = 0
    /\ raised = "none"
    /\ ret = None
    /\ scratch = [c \in ContractNames |-> FALSE]
    /\ created = [c \in ContractNames |-> 0]
    /\ proc = FALSE
    /\ spawns = [c \in ContractNames |-> 0]
    /\ status = << >>
    /\ report = << >>
    /\ reportWrites = 0

\* analyze_contract prints its message and returns r.
Return(msg, r) ==
    /\ outcome' = [outcome EXCEPT ![contract_name] = msg]
    /\ ret' = r

\* main() line 114: call analyze_contract(contract) for the next contract.
Call ==
    /\ pc = "loop"
    /\ i <= Len(CONTRACTS)
    /\ pc' = "check"
    /\ UNCHANGED <<i, results, outcome, ret, locals, files, proc, spawns, summary>>

\* CheckArtifact with the `return None` of line 32 left out.
CheckArtifact_FallsThrough ==
    /\ pc = "check"
    /\ \E exists \in BOOLEAN :
        IF ~exists
        THEN /\ artifact' = MissingArtifact
             /\ Return("NotFound", None)
             /\ pc' = "load"
        ELSE /\ pc' = "load"
             /\ UNCHANGED <<artifact, outcome, ret>>
    /\ UNCHANGED <<i, results, bytecode, deployed_bytecode, payload, output, returncode,
                   raised, files, proc, spawns, summary>>

\* Lines 28-32: os.path.exists(artifact_path).
CheckArtifact ==
    /\ pc = "check"
    /\ \E exists \in BOOLEAN :
        IF ~exists
        THEN /\ artifact' = MissingArtifact
             /\ Return("NotFound", None)
             /\ pc' = "returned"
        ELSE /\ pc' = "load"
             /\ UNCHANGED <<artifact, outcome, ret>>
    /\ UNCHANGED <<i, results, bytecode, deployed_bytecode, payload, output, returncode,
                   raised, files, proc, spawns, summary>>

\* Lines 35-40: open and json.load; any exception is caught.
LoadArtifact ==
    /\ pc = "load"
    /\ \/ /\ artifact' = UnreadableArtifact
          /\ Return("ReadError", None)
          /\ pc' = "returned"
       \/ \E a \in Artifacts :
          /\ artifact' = a
          /\ pc' = "extract"
          /\ UNCHANGED <<outcome, ret>>
    /\ UNCHANGED <<i, results, bytecode, deployed_bytecode, payload, output, returncode,
                   raised, files, proc, spawns, summary>>

\* Line 46 with the `not bytecode` test left out.
IsEmptyBytecode_OnlyMarker(b) == b = JStr("0x")

\* Line 46: `not bytecode or bytecode == '0x'`.
IsEmptyBytecode(b) == ~JTruthy(b) \/ b = JStr("0x")

\* Lines 43-48: read the two fields; an artifact that is not a JSON object has
\* no .get, and the AttributeError is raised outside every try block.
ExtractBytecode ==
    /\ pc = "extract"
    /\ IF artifact.kind # "object"
       THEN /\ pc' = "aborted"
            /\ UNCHANGED <<bytecode, deployed_bytecode, outcome, ret>>
       ELSE /\ bytecode' = Get(artifact.bytecode)
            /\ deployed_bytecode' = Get(artifact.deployedBytecode)
            /\ IF IsEmptyBytecode(bytecode')
               THEN /\ Return("EmptyBytecode", None)
                    /\ pc' = "returned"
               ELSE /\ pc' = "scratch"
                    /\ UNCHANGED <<outcome, ret>>
    /\ UNCHANGED <<i, results, artifact, payload, output, returncode, raised, files,
                   proc, spawns, summary>>

\* Lines 51-53: open(temp_file, 'w') and f.write(bytecode), outside the try
\* block.  open can fail (nothing is created); once it succeeded the file
\* exists, and f.write raises TypeError for a bytecode that is not a str, or
\* OSError when the device refuses the data.
CreateScratch ==
    /\ pc = "scratch"
    /\ \/ /\ pc' = "aborted"
          /\ UNCHANGED files
       \/ /\ scratch' = [scratch EXCEPT ![contract_name] = TRUE]
          /\ created' = [created EXCEPT ![contract_name] = @ + 1]
          /\ IF bytecode.t # "str"
             THEN pc' = "aborted"
             ELSE pc' \in {"invoke", "aborted"}
    /\ UNCHANGED <<i, results, outcome, ret, locals, proc, spawns, summary>>

\* Line 61 with the `!= '0x'` test left out.
SelectPayload_NoMarkerTest(b, d) == IF JTruthy(d) THEN d ELSE b

\* Line 61: the value placed after --bin-runtime.
SelectPayload(b, d) == IF JTruthy(d) /\ d # JStr("0x") THEN d ELSE b

\* Lines 58-74, up to the start of the child: build cmd and let
\* subprocess.run start `myth`.  A cmd element that is not a str makes Popen
\* raise TypeError; a missing binary raises FileNotFoundError; any other OSError
\* is caught by `except Exception`.
Invoke ==
    /\ pc = "invoke"
    /\ payload' = SelectPayload(bytecode, deployed_bytecode)
    /\ IF payload'.t # "str"
       THEN /\ raised' = "Exception"
            /\ Return("RuntimeError", None)
            /\ pc' = "finally"
            /\ UNCHANGED <<proc, spawns>>
       ELSE \/ /\ raised' = "FileNotFoundError"
               /\ Return("ToolMissing", None)
               /\ pc' = "finally"
               /\ UNCHANGED <<proc, spawns>>
            \/ /\ raised' = "Exception"
               /\ Return("RuntimeError", None)
               /\ pc' = "finally"
               /\ UNCHANGED <<proc, spawns>>
            \/ /\ proc' = TRUE
               /\ spawns' = [spawns EXCEPT ![contract_name] = @ + 1]
               /\ pc' = "wait"
               /\ UNCHANGED <<raised, outcome, ret>>
    /\ UNCHANGED <<i, results, artifact, bytecode, deployed_bytecode, output,
                   returncode, files, summary>>

\* Lines 79-88 with the first two branches in the other order.
Classify_CleanFirst(out, rc) ==
    IF Contains("No issues", out) \/ rc = 0
    THEN [outcome |-> "Clean", ret |-> Str("No issues found")]
    ELSE IF Contains("SWC", out) \/ Contains("Issue", out)
         THEN [outcome |-> "IssuesFound", ret |-> Str(out)]
         ELSE [outcome |-> "NeedsReview", ret |-> Str(out)]

\* Lines 79-88: the message printed and the value returned for a completed
\* invocation.
Classify(out, rc) ==
    IF Contains("SWC", out) \/ Contains("Issue", out)
    THEN [outcome |-> "IssuesFound", ret |-> Str(out)]
    ELSE IF Contains("No issues", out) \/ rc = 0
         THEN [outcome |-> "Clean", ret |-> Str("No issues found")]
         ELSE [outcome |-> "NeedsReview", ret |-> Str(out)]

\* Lines 69-88: the child exits within the limit; its text is classified.
Complete ==
    /\ pc = "wait"
    /\ \E text \in AnalyzerTexts, rc \in ReturnCodes :
        /\ output' = text
        /\ returncode' = rc
        /\ Return(Classify(text, rc).outcome, Classify(text, rc).ret)
    /\ proc' = FALSE
    /\ pc' = "finally"
    /\ UNCHANGED <<i, results, artifact, bytecode, deployed_bytecode, payload, raised,
                   files, spawns, summary>>

\* TimeoutExpired without the handler of lines 90-92: the exception reaches
\* `except Exception`.
TimeoutExpired_AsError ==
    /\ pc = "wait"
    /\ proc' = FALSE
    /\ raised' = "TimeoutExpired"
    /\ Return("RuntimeError", None)
    /\ pc' = "finally"
    /\ UNCHANGED <<i, results, artifact, bytecode, deployed_bytecode, payload, output,
                   returncode, files, spawns, summary>>

\* Lines 69-74 and 90-92: the child is still running after 90 seconds;
\* subprocess.run kills it, waits for it and raises TimeoutExpired.
TimeoutExpired ==
    /\ pc = "wait"
    /\ proc' = FALSE
    /\ raised' = "TimeoutExpired"
    /\ Return("Timeout", Str("Timeout"))
    /\ pc' = "finally"
    /\ UNCHANGED <<i, results, artifact, bytecode, deployed_bytecode, payload, output,
                   returncode, files, spawns, summary>>

\* Lines 69-74 and 97-99: any other exception while the child runs (its
\* output cannot be decoded, ...); subprocess.run kills the child and re-raises.
RunError ==
    /\ pc = "wait"
    /\ proc' = FALSE
    /\ raised' = "Exception"
    /\ Return("RuntimeError", None)
    /\ pc' = "finally"
    /\ UNCHANGED <<i, results, artifact, bytecode, deployed_bytecode, payload, output,
                   returncode, files, spawns, summary>>

\* Lines 100-103: the finally block removes the scratch file if it exists.
Finally ==
    /\ pc = "finally"
    /\ scratch' = [scratch EXCEPT ![contract_name] = FALSE]
    /\ pc' = "returned"
    /\ UNCHANGED <<i, results, outcome, ret, locals, created, proc, spawns, summary>>

\* Lines 113-115: results[contract] = result, and the loop advances; the
\* frame of analyze_contract is gone.
Store ==
    /\ pc = "returned"
    /\ results' = Append(results, [contract |-> contract_name, result |-> ret])
    /\ i' = i + 1
    /\ pc' = "loop"
    /\ artifact' = NoArtifact
    /\ bytecode' = Absent
    /\ deployed_bytecode' = Absent
    /\ payload' = Absent
    /\ output' = ""
    /\ returncode' = 0
    /\ raised' = "none"
    /\ ret' = None
    /\ UNCHANGED <<outcome, files, proc, spawns, summary>>

\* Lines 123-132: the label of one summary line.
StatusOf(result) ==
    IF result.isNone THEN "Failed"
    ELSE IF result.text = "Timeout" THEN "Timeout"
    ELSE IF result.text = "No issues found" THEN "Safe"
    ELSE IF Contains("SWC", result.text) \/ Contains("Issue", result.text) THEN "IssuesFound"
    ELSE "NeedsReview"

\* Lines 118-134: the summary table, one line per entry of results.
PrintSummary ==
    /\ pc = "loop"
    /\ i > Len(CONTRACTS)
    /\ status' = [k \in 1..Len(results) |->
                    [contract |-> results[k].contract, label |-> StatusOf(results[k].result)]]
    /\ pc' = "report"
    /\ UNCHANGED <<i, results, outcome, ret, locals, files, proc, spawns, report,
                   reportWrites>>

\* Lines 147-150: the body of one report section.
SectionBody(result) == IF Truthy(result) THEN result.text ELSE FAILED_MARKER

\* Lines 137-154: the report file, truncated and written in full.
WriteReport ==
    /\ pc = "report"
    /\ report' = [k \in 1..Len(results) |->
                    [contract |-> results[k].contract, body |-> SectionBody(results[k].result)]]
    /\ reportWrites' = reportWrites + 1
    /\ pc' = "done"
    /\ UNCHANGED <<i, results, outcome, ret, locals, files, proc, spawns, status>>

Next ==
    \/ Call
    \/ CheckArtifact
    \/ LoadArtifact
    \/ ExtractBytecode
    \/ CreateScratch
    \/ Invoke
    \/ Complete
    \/ TimeoutExpired
    \/ RunError
    \/ Finally
    \/ Store
    \/ PrintSummary
    \/ WriteReport

Spec == Init /\ [][Next]_vars

\* ------------------------------------------------------------------ claims

\* C1: no failure while processing one contract aborts the run: whatever the
\* artifact holds and whatever fails, main() processes every contract, prints
\* the summary and writes the report.
C1_RunCompletes ==
    /\ pc # "aborted"
    /\ pc = "done" => /\ Len(results) = Len(CONTRACTS)
                      /\ Len(status) = Len(CONTRACTS)
                      /\ reportWrites = 1

\* C2: a completed invocation is classified by strict precedence: text with
\* 'SWC' or 'Issue' is IssuesFound with the full text, whatever the exit code
\* and even if it also holds 'No issues'; otherwise 'No issues' or exit code 0
\* is Clean; otherwise NeedsReview with the full text.
C2_Classification ==
    (pc \in {"finally", "returned"} /\ spawns[contract_name] > 0 /\ raised = "none") =>
        IF Contains("SWC", output) \/ Contains("Issue", output)
        THEN outcome[contract_name] = "IssuesFound" /\ ret = Str(output)
        ELSE IF Contains("No issues", output) \/ returncode = 0
             THEN outcome[contract_name] = "Clean"
             ELSE outcome[contract_name] = "NeedsReview" /\ ret = Str(output)

C2_Witness ==
    /\ pc = "returned"
    /\ spawns[contract_name] > 0
    /\ raised = "none"
    /\ output = "No issues found with SWC"
    /\ returncode = 0
    /\ outcome[contract_name] = "IssuesFound"

\* C3: a contract whose artifact file does not exist gets NotFound, a failure
\* outcome without text; the analyzer is never spawned and no scratch file is
\* created for it.
C3_NotFound ==
    /\ artifact.kind = "missing" =>
        /\ pc = "returned"
        /\ outcome[contract_name] = "NotFound"
        /\ ret = None
        /\ ~proc
    /\ \A c \in ContractNames :
        outcome[c] = "NotFound" => spawns[c] = 0 /\ created[c] = 0 /\ ~scratch[c]

C3_Witness ==
    /\ pc = "returned"
    /\ contract_name = "DepositContract"
    /\ artifact.kind = "missing"
    /\ outcome[contract_name] = "NotFound"

C5_Payload ==
    (pc \in {"wait", "finally", "returned"} /\ spawns[contract_name] > 0) =>
        /\ payload.t = "str"
        /\ payload.s \notin {"", "0x"}
        /\ payload = IF artifact.deployedBytecode \notin {Absent, JNull, JStr(""), JStr("0x")}
                     THEN artifact.deployedBytecode
                     ELSE artifact.bytecode

C5_Witness ==
    /\ pc = "wait"
    /\ proc
    /\ contract_name = "MOEToken"
    /\ artifact.bytecode = JStr("0x6080")
    /\ artifact.deployedBytecode = JStr("0x")
    /\ payload = JStr("0x6080")

\* C6: the scratch file of a contract is gone once analyze_contract has
\* returned for it, and at the end of the run no scratch file remains.
C6_ScratchRemoved ==
    /\ pc = "returned" => ~scratch[contract_name]
    /\ \A k \in 1..Len(results) : ~scratch[results[k].contract]
    /\ pc \in {"done", "aborted"} => \A c \in ContractNames : ~scratch[c]

\* C7: the report has one section per contract in the order of CONTRACTS; the
\* body is the payload text for IssuesFound, NeedsReview, Clean and Timeout,
\* and the failure marker exactly for the five failure outcomes.
C7_ReportBodies ==
    pc = "done" =>
        /\ Len(report) = Len(CONTRACTS)
        /\ \A k \in 1..Len(report) :
            /\ report[k].contract = CONTRACTS[k]
            /\ outcome[CONTRACTS[k]] \notin FailureOutcomes =>
                    report[k].body = results[k].result.text
            /\ report[k].body = FAILED_MARKER <=> outcome[CONTRACTS[k]] \in FailureOutcomes

\* C8: the label of a summary line is the outcome analyze_contract assigned:
\* timeout iff Timeout, safe iff Clean, issues found iff IssuesFound, needs
\* review iff NeedsReview, failed iff one of the five failure outcomes.
C8_StatusLabels ==
    pc \in {"report", "done"} =>
        \A k \in 1..Len(status) :
            LET o == outcome[status[k].contract]
                l == status[k].label
            IN  /\ l = "Timeout" <=> o = "Timeout"
                /\ l = "Safe" <=> o = "Clean"
                /\ l = "IssuesFound" <=> o = "IssuesFound"
                /\ l = "NeedsReview" <=> o = "NeedsReview"
                /\ l = "Failed" <=> o \in FailureOutcomes

\* After TimeoutExpired the child is dead and 'Timeout' is the outcome.
C9_TimeoutState ==
    raised = "TimeoutExpired" =>
        /\ pc \in {"finally", "returned"}
        /\ ~proc
        /\ outcome[contract_name] = "Timeout"
        /\ ret = Str("Timeout")

\* Once the Timeout outcome is stored, main() is ready for the next contract,
\* or for the summary after the last one.
C9_GoesOn ==
    (pc = "loop" /\ Len(results) > 0 /\ outcome[CONTRACTS[Len(results)]] = "Timeout") =>
        /\ i = Len(results) + 1
        /\ results[Len(results)] = [contract |-> CONTRACTS[i - 1], result |-> Str("Timeout")]
        /\ IF i <= Len(CONTRACTS) THEN ENABLED Call ELSE ENABLED PrintSummary

\* From the handler, analyze_contract reaches its return and main() its loop.
C9_TimeoutStep ==
    raised = "TimeoutExpired" =>
        /\ pc = "finally" => pc' = "returned" /\ ret' = ret
        /\ pc = "returned" => pc' = "loop" /\ outcome' = outcome

\* C9: when the analyzer exceeds the 90 seconds, the contract's outcome is
\* Timeout, the child is not running when analyze_contract returns, and the
\* run goes on with the next contract, or with the summary after the last.
C9_Timeout == [](C9_TimeoutState /\ C9_GoesOn) /\ [][C9_TimeoutStep]_vars

C9_Witness ==
    /\ pc = "check"
    /\ i = 2
    /\ outcome[CONTRACTS[1]] = "Timeout"
    /\ results[1].result = Str("Timeout")
    /\ spawns[CONTRACTS[1]] = 1

\* C10: in every run the contracts are processed in the order of CONTRACTS,
\* the analyzer is spawned at most once per contract, every contract gets one
\* recorded outcome, and the report is written exactly once, after all of them.
C10_EveryRun ==
    /\ \A k \in 1..Len(results) : results[k].contract = CONTRACTS[k]
    /\ \A c \in ContractNames : spawns[c] <= 1
    /\ reportWrites <= 1
    /\ reportWrites = 1 => Len(results) = Len(CONTRACTS)
    /\ pc \in {"done", "aborted"} =>
        /\ Len(results) = Len(CONTRACTS)
        /\ reportWrites = 1

====
